---- MODULE Spec2Model ----
(***************************************************************************)
(* JSON-RPC 2.0 server of src/src/index.ts: the request processor          *)
(* (processRequest) and the dispatcher (createServer / rpcServer), with    *)
(* the method table of the test fixture (hello, echo).                     *)
(*                                                                         *)
(* JavaScript values are records [t, s, n, f]: t is the type tag, s the    *)
(* text of a string, n + f/10 the value of a number (f is the fractional   *)
(* part in tenths, so that `x % 1` is f).                                  *)
(***************************************************************************)
EXTENDS Integers, Sequences, FiniteSets, TLC

\* Longest batch the environment submits.
MaxBatch == 2

\* Most requests one client prepares.
MaxRequests == 3

\* The longest text handed to parse.
MaxText == 5

----------------------------------------------------------------------------
\* JavaScript values

Val(t, s, n, f) == [t |-> t, s |-> s, n |-> n, f |-> f]

Undef == Val("undefined", "", 0, 0)

Null == Val("null", "", 0, 0)

\* A field that is not there at all (an envelope without `result`).
Missing == Val("missing", "", 0, 0)

Str(s) == Val("string", s, 0, 0)

Num(n) == Val("number", "", n, 0)

\* 123.5
Fractional == Val("number", "", 123, 5)

True == Val("boolean", "true", 0, 0)

False == Val("boolean", "false", 0, 0)

EmptyObject == Val("object", "", 0, 0)

EmptyArray == Val("array", "", 0, 0)

\* typeof x
TypeOf(x) == IF x.t \in {"null", "array"} THEN "object" ELSE x.t

\* x ?? y
Coalesce(x, y) == IF x.t \in {"undefined", "null"} THEN y ELSE x

\* !x
Falsy(x) ==
    \/ x.t \in {"undefined", "null"}
    \/ x.t = "string" /\ x.s = ""
    \/ x.t = "number" /\ x.n = 0 /\ x.f = 0
    \/ x.t = "boolean" /\ x.s = "false"

----------------------------------------------------------------------------
\* Params, and the objects handed to the validators and the resolvers

Keys == {"arg", "extra"}

\* An object is the function from key to value, Undef where the key is unset.
NoProps == [k \in Keys |-> Undef]

Param(t, arr, obj) == [t |-> t, arr |-> arr, obj |-> obj]

ParamAbsent == Param("undefined", <<>>, NoProps)

ParamNull == Param("null", <<>>, NoProps)

ParamPrimitive == Param("string", <<>>, NoProps)

ParamNumber == Param("number", <<>>, NoProps)

ParamBoolean == Param("boolean", <<>>, NoProps)

ParamArray(arr) == Param("array", arr, NoProps)

ParamObject(obj) == Param("object", <<>>, obj)

ParamValues ==
    { ParamAbsent, ParamNull, ParamPrimitive, ParamNumber, ParamBoolean,
      ParamArray(<<>>), ParamArray(<<Str("x")>>), ParamArray(<<Num(1)>>),
      ParamArray(<<Str("x"), Str("y")>>),
      ParamObject(NoProps),
      ParamObject([NoProps EXCEPT !["arg"] = Str("x")]),
      ParamObject([NoProps EXCEPT !["arg"] = Num(1)]),
      ParamObject([NoProps EXCEPT !["arg"] = Str("x"), !["extra"] = Str("y")]) }

----------------------------------------------------------------------------
\* The method table

\* The keys the method table declares.
DeclaredMethods == {"hello", "echo"}

\* Names every object inherits from Object.prototype.
PrototypeNames == {"toString", "__proto__"}

\* `method in methods`
In(method) == method \in DeclaredMethods \cup PrototypeNames

\* Object.keys(request.props), in declaration order.
Props(method) == IF method = "echo" THEN <<"arg">> ELSE <<>>

\* request.decode(data) of t.type(props) with string props: a Left when some
\* declared key is not a string, else a Right carrying the object as it is.
IsLeft(method, data) ==
    \E i \in 1..Len(Props(method)) : data[Props(method)[i]].t # "string"

\* response.encode(data) of t.string
Encode(data) == data

----------------------------------------------------------------------------
\* Request messages

Msg(t, jsonrpc, method, id, params) ==
    [t |-> t, jsonrpc |-> jsonrpc, method |-> method, id |-> id, params |-> params]

\* A message that is an object: the four fields processRequest reads.
Req(jsonrpc, method, id, params) == Msg("object", jsonrpc, method, id, params)

\* A message that is no object: 123, null, "text", true.
Primitive(t) == Msg(t, Undef, Undef, Undef, ParamAbsent)

IdValues ==
    { Undef, Null, Str("a"), Num(1), Num(2), Fractional, True, EmptyObject, EmptyArray }

JsonRpcValues == { Str("2.0"), Str("1.0"), Undef }

MethodValues ==
    { Str("hello"), Str("echo"), Str("nope"), Str("toString"), Str("__proto__"), Undef }

\* Every single (non-batch) payload the environment submits.
Messages ==
    { Req(j, m, i, p) : j \in JsonRpcValues, m \in MethodValues,
                        i \in IdValues, p \in ParamValues }
    \cup { Primitive(t) : t \in {"number", "null", "string", "boolean"} }

\* The elements the environment puts into batches.
BatchMessages ==
    { Req(Str("2.0"), Str("hello"), Num(1), ParamAbsent),
      Req(Str("2.0"), Str("hello"), Num(2), ParamAbsent),
      Req(Str("2.0"), Str("hello"), Undef, ParamAbsent),
      Req(Str("2.0"), Str("nope"), Str("a"), ParamAbsent),
      Req(Str("2.0"), Str("nope"), Undef, ParamAbsent),
      Req(Str("2.0"), Str("echo"), Num(2), ParamAbsent),
      Req(Str("2.0"), Str("hello"), Fractional, ParamAbsent),
      Req(Str("1.0"), Str("hello"), Undef, ParamAbsent),
      Primitive("number") }

RECURSIVE SeqsUpTo(_, _)
SeqsUpTo(S, n) ==
    IF n = 0 THEN { <<>> }
    ELSE LET shorter == SeqsUpTo(S, n - 1)
         IN shorter \cup { Append(q, x) : q \in { r \in shorter : Len(r) = n - 1 }, x \in S }

\* A payload is one message, or an array of messages.
Payloads ==
    { [isArray |-> FALSE, items |-> <<m>>] : m \in Messages }
    \cup { [isArray |-> TRUE, items |-> q] : q \in SeqsUpTo(BatchMessages, MaxBatch) }

----------------------------------------------------------------------------
\* Errors and response envelopes

Error(code, message, data) == [code |-> code, message |-> message, data |-> data]

NoError == Error(Missing, Missing, Missing)

INVALID_REQUEST == Error(Num(-32600), Str("Invalid request"), Missing)

METHOD_NOT_FOUND == Error(Num(-32601), Str("Method not found"), Missing)

Envelope(id, result, error) ==
    [jsonrpc |-> "2.0", id |-> id, result |-> result, error |-> error]

NoEnvelope == [jsonrpc |-> "", id |-> Missing, result |-> Missing, error |-> NoError]

\* What a promise of processRequest holds: st is "pending", "undefined"
\* (fulfilled with undefined), "envelope" (fulfilled with env) or "rejected".
Promise(st, env) == [st |-> st, env |-> env]

\* An id check that takes every number.
isJsonRpcId_anyNumber(input) ==
    IF input.t \in {"null", "undefined"} THEN TRUE
    ELSE IF TypeOf(input) = "string" THEN TRUE
    ELSE IF TypeOf(input) = "number" THEN TRUE
    ELSE FALSE

isJsonRpcId(input) ==
    IF input.t \in {"null", "undefined"} THEN TRUE
    ELSE IF TypeOf(input) = "string" THEN TRUE
    ELSE IF TypeOf(input) = "number" THEN input.f = 0
    ELSE FALSE

\* A success envelope that does not echo the id.
success_nullId(result, id) ==
    IF id = Undef THEN Promise("undefined", NoEnvelope)
    ELSE Promise("envelope", Envelope(Null, result, NoError))

success(result, id) ==
    IF id = Undef THEN Promise("undefined", NoEnvelope)
    ELSE Promise("envelope", Envelope(id, result, NoError))

failure(error, id) ==
    IF id = Undef THEN Promise("undefined", NoEnvelope)
    ELSE Promise("envelope", Envelope(id, Missing, error))

----------------------------------------------------------------------------
\* Resolvers

\* A thrown value: its type and the three properties the catch block reads.
Thrown(t, code, message, data) ==
    [t |-> t, code |-> code, message |-> message, data |-> data]

\* The TypeError the runtime throws on a property read of undefined or a call
\* of something that is no function.
TypeError == Thrown("object", Undef, Str("TypeError"), Undef)

\* What a resolver of the method table may return.
ReturnValues == { Str("Hello World!"), Num(7) }

\* What a resolver of the method table may throw: null, undefined, a string,
\* new Error("boom"), new RpcError("custom", 1, "d"), and an object whose
\* code is no number and whose message is empty.
ThrownValues ==
    { Thrown("null", Undef, Undef, Undef),
      Thrown("undefined", Undef, Undef, Undef),
      Thrown("string", Undef, Undef, Undef),
      Thrown("object", Undef, Str("boom"), Undef),
      Thrown("object", Num(1), Str("custom"), Str("d")),
      Thrown("object", Str("E"), Str(""), Undef) }

\* resolvers[method] of a declared method is the service's resolver, which
\* returns or throws as it likes; resolvers.toString is
\* Object.prototype.toString.
ReturnsOf(method) ==
    IF method \in DeclaredMethods THEN ReturnValues ELSE { Str("[object Object]") }

ThrowsOf(method) == IF method \in DeclaredMethods THEN ThrownValues ELSE {}

----------------------------------------------------------------------------
\* processRequest

\* One invocation of a resolver: its first argument and its metadata.
Call(n, input, id, isNotification) ==
    [n |-> n, input |-> input, id |-> id, isNotification |-> isNotification]

NoCall == Call(0, NoProps, Missing, FALSE)

\* processRequest up to its return or its await: the promise it leaves and
\* the resolver invocation it made.
Step(promise, call) == [promise |-> promise, call |-> call]

Return(promise) == Step(promise, NoCall)

\* A TypeError raised outside the try block rejects the promise.
Rejection == Promise("rejected", NoEnvelope)

\* The id dropped for every wrong jsonrpc or method.
RequestIdOrNull_alwaysNull(id) == Null

\* The id taken as it is, absent or not.
RequestIdOrNull_asIs(id) == id

\* The id of the envelope for a wrong jsonrpc or method: `id ?? null`.
RequestIdOrNull(id) == Coalesce(id, Null)

\* A shim that fills the declared keys from the end of the array.
Positional_fromEnd(method, arr) ==
    [k \in Keys |->
        IF \E i \in 1..Len(Props(method)) : Props(method)[i] = k
        THEN LET i == CHOOSE j \in 1..Len(Props(method)) : Props(method)[j] = k
             IN IF i <= Len(arr) THEN arr[Len(arr) - i + 1] ELSE Undef
        ELSE Undef]

\* The array shim: Object.keys(request.props).reduce(obj[key] = params[index]).
Positional(method, arr) ==
    [k \in Keys |->
        IF \E i \in 1..Len(Props(method)) : Props(method)[i] = k
        THEN LET i == CHOOSE j \in 1..Len(Props(method)) : Props(method)[j] = k
             IN IF i <= Len(arr) THEN arr[i] ELSE Undef
        ELSE Undef]

\* `params ?? {}`
ObjectOrEmpty(params) ==
    IF params.t \in {"undefined", "null"} THEN NoProps ELSE params.obj

\* The catch block: reading err.code of null or undefined raises a TypeError
\* that nothing catches.
Caught(err, id) ==
    IF err.t \in {"null", "undefined"} THEN Rejection
    ELSE failure(Error(IF TypeOf(err.code) = "number" THEN err.code ELSE Num(-32603),
                       IF Falsy(err.message) THEN Str("Internal error") ELSE err.message,
                       err.data),
                 id)

\* The try block after the resolver returned `data`; the response validator
\* of a prototype name is undefined, and reading its encode raises.
Returned(method, data, id, isNotification, options) ==
    IF isNotification THEN Promise("undefined", NoEnvelope)
    ELSE IF ~options.encode THEN success(data, id)
    ELSE IF method \notin DeclaredMethods THEN Caught(TypeError, id)
    ELSE success(Encode(data), id)

\* A decode whose failure is never noticed.
DecodeFails_never(method, data) == FALSE

\* Whether request.decode reports the normalized params as invalid.
DecodeFails(method, data) == IsLeft(method, data)

\* A test that lets every value of params through.
PassedThrough_always(params) == TRUE

\* `params === undefined || typeof params === "object"`
PassedThrough(params) == params.t = "undefined" \/ TypeOf(params) = "object"

\* A test that takes a null id for an absent one.
IsNotification_orNull(id) == id \in {Undef, Null}

\* `const isNotification = id === undefined`
IsNotification(id) == id = Undef

processRequest(message, options) ==
    LET id == message.id
        isNotification == IsNotification(id)
        method == message.method.s
        params == message.params
        declared == method \in DeclaredMethods
    IN
    IF message.t = "null" \/ TypeOf(message) # "object"
    THEN Return(failure(INVALID_REQUEST, Null))
    ELSE IF ~isJsonRpcId(id)
    THEN Return(failure(INVALID_REQUEST, Null))
    ELSE IF message.jsonrpc # Str("2.0") \/ TypeOf(message.method) # "string"
    THEN Return(failure(INVALID_REQUEST, RequestIdOrNull(id)))
    ELSE IF ~In(method)
    THEN Return(failure(METHOD_NOT_FOUND, id))
    ELSE IF params.t = "array" /\ ~declared
    THEN Return(Rejection)
    ELSE IF params.t # "array" /\ ~PassedThrough(params)
    THEN Return(failure(INVALID_REQUEST, id))
    ELSE
        LET data == IF params.t = "array" THEN Positional(method, params.arr)
                    ELSE ObjectOrEmpty(params)
        IN
        IF options.decode /\ ~declared
        THEN Return(Rejection)
        ELSE IF options.decode /\ DecodeFails(method, data)
        THEN Return(failure(Error(Num(-32602), Str("Invalid value"), Missing), id))
        ELSE IF method = "__proto__"
        THEN Return(Caught(TypeError, id))
        ELSE Step(Promise("pending", NoEnvelope), Call(1, data, id, isNotification))

----------------------------------------------------------------------------
\* rpcServer

\* What the call of rpcServer gave its caller: kind is "none" (not settled),
\* "undefined", "envelope", "list" or "rejected".
Response(kind, env, list) == [kind |-> kind, env |-> env, list |-> list]

NoResponse == Response("none", NoEnvelope, <<>>)

\* A filter that drops nothing.
Kept_everything(promise) == TRUE

\* The test of results.filter: `x !== undefined`.
Kept(promise) == promise.st # "undefined"

RECURSIVE Filter(_, _)
\* The members of the index sequence `order` whose promise passes the filter.
Filter(order, promises) ==
    IF order = <<>> THEN <<>>
    ELSE IF Kept(promises[Head(order)])
         THEN <<Head(order)>> \o Filter(Tail(order), promises)
         ELSE Filter(Tail(order), promises)

\* The results gathered in the order the promises settled.
Assemble_bySettling(promises, settled) == Filter(settled, promises)

\* Promise.all gives the results by position, and results.filter keeps that
\* order: the positions of the envelopes returned, in the order returned.
Assemble(promises, settled) ==
    Filter([i \in 1..Len(promises) |-> i], promises)

\* The callers that may have a call of the client in flight at once.
Callers == {"a", "b"}

VARIABLES
    options,     \* the ServerOptions the server was created with
    pc,          \* "idle", "running", "returned" or "rejected"
    payload,     \* the payload of the call
    results,     \* the promise of processRequest for each element
    calls,       \* the resolver invocation made for each element
    fate,        \* what the resolver of each element did: "none", "returned", "threw"
    settled,     \* the elements in the order their promises settled
    response,    \* what rpcServer gave its caller
    origin,      \* for a list response, the element each entry was made for
    effect,      \* what the resolver of each element returned or threw
    clientOptions,  \* the ClientOptions the client was created with
    counter,     \* the id counter of the client
    prepared,    \* every item the client prepared, in the order of prepare
    client,      \* the call each caller of the client has made
    queue,       \* the texts still to be handed to parse
    input,       \* the text of the last call of parse
    output,      \* the Either the last call of parse returned
    errors       \* the errors parse has returned so far

clientVars == <<clientOptions, counter, prepared, client>>

parseVars == <<queue, input, output, errors>>

serverVars ==
    <<options, pc, payload, results, calls, fate, settled, response, origin, effect>>

\* What a resolver did: the value it returned or the value it threw.
Effect(value, err) == [value |-> value, err |-> err]

NoEffect == Effect(Missing, Thrown("missing", Missing, Missing, Missing))

ServerInit ==
    /\ options \in [decode : BOOLEAN, encode : BOOLEAN]
    /\ pc = "idle"
    /\ payload = [isArray |-> FALSE, items |-> <<>>]
    /\ results = <<>>
    /\ calls = <<>>
    /\ fate = <<>>
    /\ settled = <<>>
    /\ response = NoResponse
    /\ origin = <<>>
    /\ effect = <<>>

\* rpcServer(payload) up to its first await.
rpcServer(p) ==
    /\ pc = "idle"
    /\ payload' = p
    /\ IF p.isArray /\ Len(p.items) = 0
       THEN /\ pc' = "returned"
            /\ response' = Response("envelope", failure(INVALID_REQUEST, Null).env, <<>>)
            /\ UNCHANGED <<results, calls, fate, settled, effect>>
       ELSE LET steps == [i \in 1..Len(p.items) |-> processRequest(p.items[i], options)]
            IN /\ pc' = "running"
               /\ results' = [i \in 1..Len(steps) |-> steps[i].promise]
               /\ calls' = [i \in 1..Len(steps) |-> steps[i].call]
               /\ fate' = [i \in 1..Len(steps) |-> "none"]
               /\ effect' = [i \in 1..Len(steps) |-> NoEffect]
               /\ settled' = SelectSeq([i \in 1..Len(steps) |-> i],
                                       LAMBDA i : steps[i].promise.st # "pending")
               /\ response' = NoResponse
    /\ UNCHANGED <<options, origin>>
    /\ UNCHANGED clientVars
    /\ UNCHANGED parseVars

\* The resolver of element i returns v.
ResolverReturns(i, v) ==
    /\ i \in 1..Len(results)
    /\ results[i].st = "pending"
    /\ v \in ReturnsOf(payload.items[i].method.s)
    /\ results' = [results EXCEPT ![i] =
            Returned(payload.items[i].method.s, v, calls[i].id,
                     calls[i].isNotification, options)]
    /\ fate' = [fate EXCEPT ![i] = "returned"]
    /\ effect' = [effect EXCEPT ![i] = Effect(v, NoEffect.err)]
    /\ settled' = Append(settled, i)
    /\ UNCHANGED <<options, pc, payload, calls, response, origin>>
    /\ UNCHANGED clientVars
    /\ UNCHANGED parseVars

\* The resolver of element i throws err.
ResolverThrows(i, err) ==
    /\ i \in 1..Len(results)
    /\ results[i].st = "pending"
    /\ err \in ThrowsOf(payload.items[i].method.s)
    /\ results' = [results EXCEPT ![i] = Caught(err, calls[i].id)]
    /\ fate' = [fate EXCEPT ![i] = "threw"]
    /\ effect' = [effect EXCEPT ![i] = Effect(Missing, err)]
    /\ settled' = Append(settled, i)
    /\ UNCHANGED <<options, pc, payload, calls, response, origin>>
    /\ UNCHANGED clientVars
    /\ UNCHANGED parseVars

\* Every promise is fulfilled: rpcServer returns.
Join ==
    /\ pc = "running"
    /\ \A i \in 1..Len(results) : results[i].st \in {"undefined", "envelope"}
    /\ pc' = "returned"
    /\ IF payload.isArray
       THEN LET kept == Assemble(results, settled)
            IN /\ response' = Response("list", NoEnvelope,
                                       [k \in 1..Len(kept) |-> results[kept[k]].env])
               /\ origin' = kept
       ELSE /\ response' = Response(results[1].st, results[1].env, <<>>)
            /\ origin' = origin
    /\ UNCHANGED <<options, payload, results, calls, fate, settled, effect>>
    /\ UNCHANGED clientVars
    /\ UNCHANGED parseVars

\* A promise is rejected: Promise.all, and so rpcServer, rejects at once.
Reject ==
    /\ pc = "running"
    /\ \E i \in 1..Len(results) : results[i].st = "rejected"
    /\ pc' = "rejected"
    /\ response' = Response("rejected", NoEnvelope, <<>>)
    /\ UNCHANGED <<options, payload, results, calls, fate, settled, origin, effect>>
    /\ UNCHANGED clientVars
    /\ UNCHANGED parseVars

----------------------------------------------------------------------------
\* createClient: prepare and process

\* A typed call handed to the client: { method, params, async }.
ClientRequest(method, params, async) ==
    [method |-> method, params |-> params, async |-> async]

\* The calls the client is asked to make: params of the request type.
ClientRequests ==
    { ClientRequest("hello", NoProps, a) : a \in BOOLEAN }
    \cup { ClientRequest("echo", [NoProps EXCEPT !["arg"] = Str("x")], a) : a \in BOOLEAN }

\* request.encode(params) of t.type with string props.
EncodeRequest(params) == params

\* The value of the `error` field of a reply body: its type and the three
\* properties process reads with `error?.`.
ErrorField(t, code, message, data) ==
    [t |-> t, code |-> code, message |-> message, data |-> data]

NoErrorField == ErrorField("undefined", Undef, Undef, Undef)

\* A reply body, or an entry of a reply array: its type and the fields read.
Body(t, id, result, error) == [t |-> t, id |-> id, result |-> result, error |-> error]

BodyUndefined == Body("undefined", Undef, Undef, NoErrorField)

\* The body of a reply that is an array, as process sees it.
BodyArray == Body("array", Undef, Undef, NoErrorField)

\* What send resolved to: one body, or an array of entries.
Answer(isArray, body, list) == [isArray |-> isArray, body |-> body, list |-> list]

\* An RpcError: message, code, data.
RpcError(message, code, data) == [message |-> message, code |-> code, data |-> data]

NoRpcError == RpcError(Missing, Missing, Missing)

InvalidResponse == RpcError(Str("Invalid response"), Num(-1), Undef)

\* What process returns: kind is "value" or "error" (an RpcError instance).
Processed(kind, value, error) == [kind |-> kind, value |-> value, error |-> error]

Value(v) == Processed("value", v, NoRpcError)

Failed(e) == Processed("error", Missing, e)

NaN == Val("number", "NaN", 0, 0)

\* Number(x)
NumberOf(x) ==
    IF x.t = "number" THEN x
    ELSE IF x.t = "null" THEN Num(0)
    ELSE IF x.t = "boolean" THEN (IF x.s = "true" THEN Num(1) ELSE Num(0))
    ELSE IF x.t = "string" /\ x.s = "" THEN Num(0)
    ELSE IF x.t = "string" /\ \E d \in 0..9 : ToString(d) = x.s
         THEN Num(CHOOSE d \in 0..9 : ToString(d) = x.s)
    ELSE NaN

\* String(x)
StringOf(x) ==
    IF x.t = "string" THEN x
    ELSE IF x.t = "number" /\ x.s = "" /\ x.f = 0 THEN Str(ToString(x.n))
    ELSE IF x.t = "number" /\ x.s = "" THEN Str(ToString(x.n) \o "." \o ToString(x.f))
    ELSE IF x.t = "number" THEN Str(x.s)
    ELSE IF x.t = "boolean" THEN Str(x.s)
    ELSE IF x.t \in {"null", "undefined"} THEN Str(x.t)
    ELSE IF x.t = "array" THEN Str("")
    ELSE Str("[object Object]")

\* `error?.message`, `error?.code`, `error?.data`
ErrorMessage(error) == IF error.t \in {"null", "undefined"} THEN Undef ELSE error.message

ErrorCode(error) == IF error.t \in {"null", "undefined"} THEN Undef ELSE error.code

ErrorData(error) == IF error.t \in {"null", "undefined"} THEN Undef ELSE error.data

\* `Number(error?.code) || 0`
CodeOrZero(error) ==
    IF Falsy(NumberOf(ErrorCode(error))) THEN Num(0) ELSE NumberOf(ErrorCode(error))

\* `String(error?.message || "Error")`
MessageOrError(error) ==
    StringOf(IF Falsy(ErrorMessage(error)) THEN Str("Error") ELSE ErrorMessage(error))

\* response.decode(result) of t.string is a Left for anything but a string.
ResponseIsLeft(result) == result.t # "string"

\* The data of a decode error: output.left, the validation errors.
ValidationErrors == Val("array", "ValidationErrors", 0, 0)

\* A test that takes every falsy result for no result.
ResultAbsent_falsy(result) == Falsy(result)

\* A test that finds a result in every body.
ResultAbsent_never(result) == FALSE

\* `result === undefined`
ResultAbsent(result) == result = Undef

\* The item prepare builds: the envelope fields and the async flag that its
\* process closure captured.
Prepared(method, params, id, async) ==
    [method |-> method, params |-> params, id |-> id, async |-> async]

\* The id prepare gives a request: `async ? undefined : counter++`.
NextId(async, n) == IF async THEN Undef ELSE Num(n)

\* A counter that every request consumes, notifications included.
NextCounter_alsoAsync(async, n) == n + 1

\* The counter after prepare.
NextCounter(async, n) == IF async THEN n ELSE n + 1

prepare(request, n, opts) ==
    Prepared(request.method,
             IF ~opts.encode THEN request.params ELSE EncodeRequest(request.params),
             NextId(request.async, n),
             request.async)

\* The process closure of a prepared item, applied to a reply body.
process(item, body, opts) ==
    IF body.t = "undefined"
    THEN (IF item.async THEN Value(Undef) ELSE Failed(InvalidResponse))
    ELSE IF body.t = "null" \/ TypeOf(body) # "object" \/ body.t = "array"
    THEN Failed(InvalidResponse)
    ELSE IF ResultAbsent(body.result) /\ body.error.t = "undefined"
    THEN Failed(InvalidResponse)
    ELSE IF body.error.t # "undefined"
    THEN Failed(RpcError(MessageOrError(body.error), CodeOrZero(body.error),
                         ErrorData(body.error)))
    ELSE IF ~opts.decode
    THEN Value(body.result)
    ELSE IF ResponseIsLeft(body.result)
    THEN Failed(RpcError(Str("Invalid value"), Num(-2), ValidationErrors))
    ELSE Value(body.result)

RECURSIVE prepareAll(_, _, _)
\* payload.map(prepare): the items, each with the id the counter gave it.
prepareAll(requests, n, opts) ==
    IF requests = <<>> THEN <<>>
    ELSE <<prepare(Head(requests), n, opts)>>
         \o prepareAll(Tail(requests), NextCounter(Head(requests).async, n), opts)

RECURSIVE counterAfter(_, _)
\* The counter after payload.map(prepare).
counterAfter(requests, n) ==
    IF requests = <<>> THEN n
    ELSE counterAfter(Tail(requests), NextCounter(Head(requests).async, n))

\* `data.id` of an entry of the reply array: undefined on a primitive.
EntryId(entry) == IF entry.t = "object" THEN entry.id ELSE Undef

\* A lookup that answers with the entry at the head of the reply, whatever
\* its id.
Lookup_byPosition(data, id) == IF data = <<>> THEN BodyUndefined ELSE data[1]

\* lookup.get(id) of new Map(data.map(data => [data.id, data])): the last
\* entry with that id, or undefined.
Lookup(data, id) ==
    IF \E k \in 1..Len(data) : EntryId(data[k]) = id
    THEN data[CHOOSE k \in 1..Len(data) :
                 /\ EntryId(data[k]) = id
                 /\ \A j \in 1..Len(data) : EntryId(data[j]) = id => j <= k]
    ELSE BodyUndefined

\* What a call of the client gave its caller: kind is "none" (pending),
\* "value" (returned), "throw" (an RpcError thrown), "list" (many returned),
\* "typeerror" (rejected by a TypeError of the runtime) or "failed" (the
\* rejection of send passed on).
Outcome(kind, value, error, list) ==
    [kind |-> kind, value |-> value, error |-> error, list |-> list]

NoOutcome == Outcome("none", Missing, NoRpcError, <<>>)

\* A single call that takes a reply with another id than its own for no reply.
Settle_matchingId(item, answer, opts) ==
    LET body == IF answer.isArray THEN BodyArray ELSE answer.body
        r == process(item, body, opts)
    IN IF body.t = "object" /\ body.id # item.id
       THEN Outcome("throw", Missing, InvalidResponse, <<>>)
       ELSE IF r.kind = "error" THEN Outcome("throw", Missing, r.error, <<>>)
       ELSE Outcome("value", r.value, NoRpcError, <<>>)

\* A single call that returns what process returned, an RpcError included.
Settle_returnsError(item, answer, opts) ==
    LET r == process(item, IF answer.isArray THEN BodyArray ELSE answer.body, opts)
    IN Outcome("value", r.value, r.error, <<>>)

\* rpcClient after `await send`: process, then throw an RpcError or return.
Settle(item, answer, opts) ==
    LET r == process(item, IF answer.isArray THEN BodyArray ELSE answer.body, opts)
    IN IF r.kind = "error" THEN Outcome("throw", Missing, r.error, <<>>)
       ELSE Outcome("value", r.value, NoRpcError, <<>>)

\* Reading `data.id` of null or undefined raises a TypeError.
EntryRaises(entry) == entry.t \in {"null", "undefined"}

\* A batch call that hands a reply that is no array to every item.
SettleMany_perSlot(items, answer, opts) ==
    IF ~answer.isArray
    THEN Outcome("list", Missing, NoRpcError,
                 [i \in 1..Len(items) |-> process(items[i], answer.body, opts)])
    ELSE IF \E k \in 1..Len(answer.list) : EntryRaises(answer.list[k])
    THEN Outcome("typeerror", Missing, NoRpcError, <<>>)
    ELSE Outcome("list", Missing, NoRpcError,
                 [i \in 1..Len(items) |->
                     process(items[i], Lookup(answer.list, items[i].id), opts)])

\* rpcClient.many after `await send`.
SettleMany(items, answer, opts) ==
    IF ~answer.isArray THEN Outcome("throw", Missing, InvalidResponse, <<>>)
    ELSE IF \E k \in 1..Len(answer.list) : EntryRaises(answer.list[k])
    THEN Outcome("typeerror", Missing, NoRpcError, <<>>)
    ELSE Outcome("list", Missing, NoRpcError,
                 [i \in 1..Len(items) |->
                     process(items[i], Lookup(answer.list, items[i].id), opts)])

\* One call of the client: st is "idle", "sent" (awaiting send) or "done".
ClientCall(st, many, items, answer, outcome) ==
    [st |-> st, isMany |-> many, items |-> items, answer |-> answer, outcome |-> outcome]

NoAnswer == Answer(FALSE, BodyUndefined, <<>>)

IdleCall == ClientCall("idle", FALSE, <<>>, NoAnswer, NoOutcome)

ClientStart ==
    /\ clientOptions \in [encode : BOOLEAN, decode : BOOLEAN]
    /\ counter = 0
    /\ prepared = <<>>
    /\ client = [c \in Callers |-> IdleCall]

\* rpcClient(payload) up to `await send`.
rpcClient(c, request) ==
    /\ client[c].st # "sent"
    /\ client' = [client EXCEPT ![c] =
            ClientCall("sent", FALSE, <<prepare(request, counter, clientOptions)>>,
                       NoAnswer, NoOutcome)]
    /\ counter' = NextCounter(request.async, counter)
    /\ prepared' = Append(prepared, prepare(request, counter, clientOptions))
    /\ UNCHANGED clientOptions
    /\ UNCHANGED serverVars
    /\ UNCHANGED parseVars

\* rpcClient.many(payload) up to `await send`.
many(c, requests) ==
    /\ client[c].st # "sent"
    /\ client' = [client EXCEPT ![c] =
            ClientCall("sent", TRUE, prepareAll(requests, counter, clientOptions),
                       NoAnswer, NoOutcome)]
    /\ counter' = counterAfter(requests, counter)
    /\ prepared' = prepared \o prepareAll(requests, counter, clientOptions)
    /\ UNCHANGED clientOptions
    /\ UNCHANGED serverVars
    /\ UNCHANGED parseVars

\* send resolves to `answer`: the rest of rpcClient or of rpcClient.many.
Deliver(c, answer) ==
    /\ client[c].st = "sent"
    /\ client' = [client EXCEPT ![c] =
            ClientCall("done", client[c].isMany, client[c].items, answer,
                       IF client[c].isMany
                       THEN SettleMany(client[c].items, answer, clientOptions)
                       ELSE Settle(client[c].items[1], answer, clientOptions))]
    /\ UNCHANGED <<clientOptions, counter, prepared>>
    /\ UNCHANGED serverVars
    /\ UNCHANGED parseVars

\* send rejects: the call rejects with the transport's error.
SendFails(c) ==
    /\ client[c].st = "sent"
    /\ client' = [client EXCEPT ![c] =
            ClientCall("done", client[c].isMany, client[c].items, NoAnswer,
                       Outcome("failed", Missing, NoRpcError, <<>>))]
    /\ UNCHANGED <<clientOptions, counter, prepared>>
    /\ UNCHANGED serverVars
    /\ UNCHANGED parseVars

----------------------------------------------------------------------------
\* parse

PARSE_ERROR == Error(Num(-32700), Str("Parse error"), Missing)

\* The characters of the texts handed to parse.
Chars == {"[", "]", "1", ","}

\* A text is the sequence of its characters.
Texts == SeqsUpTo(Chars, MaxText)

\* A JSON value: a number, or an array of JSON values.
Json(t, n, items) == [t |-> t, n |-> n, items |-> items]

NoJson == Json("none", 0, <<>>)

RECURSIVE Ones(_)
\* The number that k digits 1 spell.
Ones(k) == IF k = 0 THEN 0 ELSE 10 * Ones(k - 1) + 1

\* What reading a value from a position of the text gave: the value and the
\* position after it, or the failure and whether it was the end of the text.
Ok(value, next) == [ok |-> TRUE, value |-> value, next |-> next, atEnd |-> FALSE]

Fail(text, pos) ==
    [ok |-> FALSE, value |-> NoJson, next |-> pos, atEnd |-> pos > Len(text)]

\* The position after the digits that start at pos.
DigitsEnd(text, pos) ==
    CHOOSE e \in pos..(Len(text) + 1) :
        /\ \A k \in pos..(e - 1) : text[k] = "1"
        /\ e = Len(text) + 1 \/ text[e] # "1"

RECURSIVE ReadValue(_, _)
RECURSIVE ReadElements(_, _, _)
\* JSON.parse reading one value at pos.
ReadValue(text, pos) ==
    IF pos > Len(text) THEN Fail(text, pos)
    ELSE IF text[pos] = "1"
    THEN Ok(Json("number", Ones(DigitsEnd(text, pos) - pos), <<>>), DigitsEnd(text, pos))
    ELSE IF text[pos] = "["
    THEN IF pos + 1 > Len(text) THEN Fail(text, pos + 1)
         ELSE IF text[pos + 1] = "]" THEN Ok(Json("array", 0, <<>>), pos + 2)
         ELSE ReadElements(text, pos + 1, <<>>)
    ELSE Fail(text, pos)

\* JSON.parse reading the elements of an array after `[` or `,`.
ReadElements(text, pos, read) ==
    LET r == ReadValue(text, pos)
    IN IF ~r.ok THEN r
       ELSE IF r.next > Len(text) THEN Fail(text, r.next)
       ELSE IF text[r.next] = "]"
       THEN Ok(Json("array", 0, Append(read, r.value)), r.next + 1)
       ELSE IF text[r.next] = ","
       THEN ReadElements(text, r.next + 1, Append(read, r.value))
       ELSE Fail(text, r.next)

\* What JSON.parse did: returned a value, or threw a SyntaxError whose
\* message tells the end of the input from an unexpected character.
Parsed(threw, value, message) == [threw |-> threw, value |-> value, message |-> message]

JSONParse(text) ==
    LET r == ReadValue(text, 1)
    IN IF r.ok /\ r.next > Len(text) THEN Parsed(FALSE, r.value, "")
       ELSE IF r.ok THEN Parsed(TRUE, NoJson, "Unexpected token in JSON")
       ELSE IF r.atEnd THEN Parsed(TRUE, NoJson, "Unexpected end of JSON input")
       ELSE Parsed(TRUE, NoJson, "Unexpected token in JSON")

\* An Either: tag is "Left" or "Right" ("none" before any call).
Left(e) == [tag |-> "Left", left |-> e, right |-> NoJson]

Right(v) == [tag |-> "Right", left |-> NoError, right |-> v]

NoEither == [tag |-> "none", left |-> NoError, right |-> NoJson]

\* An error handler that passes the message of the SyntaxError on.
OnError_underlying(message) == Error(Num(-32700), Str(message), Missing)

\* `() => PARSE_ERROR`
OnError(message) == PARSE_ERROR

\* A parseJSON that lets the SyntaxError escape.
parse_uncaught(text) ==
    IF JSONParse(text).threw THEN [tag |-> "throw", left |-> NoError, right |-> NoJson]
    ELSE Right(JSONParse(text).value)

\* either.parseJSON(input, () => PARSE_ERROR): tryCatch around JSON.parse.
parse(text) ==
    IF JSONParse(text).threw THEN Left(OnError(JSONParse(text).message))
    ELSE Right(JSONParse(text).value)

\* The texts parsed a second time.
FewTexts == { <<"[">>, <<"1">>, <<"]", "1">> }

ParseIdle ==
    /\ queue = <<>>
    /\ input = <<>>
    /\ output = NoEither
    /\ errors = <<>>

\* One call of parse on the next text.
CallParse ==
    /\ queue # <<>>
    /\ input' = Head(queue)
    /\ output' = parse(Head(queue))
    /\ errors' = IF parse(Head(queue)).tag = "Left"
                 THEN Append(errors, parse(Head(queue)).left)
                 ELSE errors
    /\ queue' = Tail(queue)
    /\ UNCHANGED <<serverVars, clientVars>>

----------------------------------------------------------------------------
\* Specifications

vars == <<serverVars, clientVars, parseVars>>

DefaultOptions == [encode |-> TRUE, decode |-> TRUE]

\* The values a reply body carries as `result`; Undef is no result.
ResultValues == { Undef, Str("ok"), Str(""), Num(0), False, Null }

\* The values a reply body carries as `error`: none, null, a string, an error
\* object of the server, {}, and objects whose code is no number: a string,
\* a boolean, a string of digits.
ErrorFields ==
    { NoErrorField,
      ErrorField("null", Undef, Undef, Undef),
      ErrorField("string", Undef, Undef, Undef),
      ErrorField("object", Num(-32601), Str("Method not found"), Str("d")),
      ErrorField("object", Undef, Undef, Undef),
      ErrorField("object", Str("E"), Str(""), Undef),
      ErrorField("object", True, Num(5), Null),
      ErrorField("object", Str("5"), Str("five"), Undef) }

\* The bodies send may resolve to for one request.
Bodies ==
    { Body("object", i, r, e) : i \in {Undef, Num(0), Num(1)}, r \in ResultValues,
                                e \in ErrorFields }
    \cup { BodyUndefined, Body("null", Undef, Undef, NoErrorField),
           Body("number", Undef, Undef, NoErrorField) }

\* The entries of the arrays send may resolve to.
Entries ==
    { Body("object", Num(0), Str("r0"), NoErrorField),
      Body("object", Num(1), Str("r1"), NoErrorField),
      Body("object", Num(0), Num(0), NoErrorField),
      Body("object", Num(1), Undef, ErrorField("object", Num(1), Str("custom"), Str("d"))),
      Body("object", Undef, Str("stray"), NoErrorField),
      Body("object", Undef, Undef, NoErrorField),
      Body("null", Undef, Undef, NoErrorField),
      Body("number", Undef, Undef, NoErrorField) }

\* What send may resolve to.
Answers ==
    { Answer(FALSE, b, <<>>) : b \in Bodies }
    \cup { Answer(TRUE, BodyArray, q) : q \in SeqsUpTo(Entries, MaxBatch) }

\* No caller has called the client yet.
FreshClient == \A c \in Callers : client[c].st = "idle"

\* A client alone: one call of a new client, and any answer of the transport.
ClientInit ==
    /\ ServerInit
    /\ options = DefaultOptions
    /\ ClientStart
    /\ ParseIdle

ClientNext ==
    \/ FreshClient /\ \E r \in ClientRequests : rpcClient("a", r)
    \/ FreshClient /\ \E rs \in SeqsUpTo(ClientRequests, MaxBatch) : many("a", rs)
    \/ client["a"].st = "sent" /\ \E answer \in Answers : Deliver("a", answer)
    \/ SendFails("a")

ClientSpec == ClientInit /\ [][ClientNext]_vars

\* The answers that matter to the counter: undefined and the empty array.
PlainAnswers == { NoAnswer, Answer(TRUE, BodyArray, <<>>) }

\* The requests that matter to the counter: with an id and without.
CounterRequests == { r \in ClientRequests : r.method = "hello" }

CounterInit == ClientInit /\ clientOptions = DefaultOptions

\* Two callers sharing one client, their calls in flight together, until
\* MaxRequests requests have been prepared.
CounterNext ==
    \/ /\ Len(prepared) < MaxRequests
       /\ \E c \in Callers, r \in CounterRequests : rpcClient(c, r)
    \/ /\ Len(prepared) < MaxRequests
       /\ \E c \in Callers, rs \in SeqsUpTo(CounterRequests, MaxBatch) :
              Len(prepared) + Len(rs) <= MaxRequests /\ many(c, rs)
    \/ \E c \in Callers, answer \in PlainAnswers : Deliver(c, answer)
    \/ \E c \in Callers : SendFails(c)

CounterSpec == CounterInit /\ [][CounterNext]_vars

\* The envelope the client puts on the wire for a prepared item.
ToMessage(item) == Req(Str("2.0"), Str(item.method), item.id, ParamObject(item.params))

\* What send hands to the server: the envelope, or the list of envelopes.
ToPayload(call) ==
    [isArray |-> call.isMany,
     items |-> [i \in 1..Len(call.items) |-> ToMessage(call.items[i])]]

\* A field of an envelope that was never set reads as undefined.
Read(field) == IF field = Missing THEN Undef ELSE field

\* An envelope of the server as the client's process reads it.
EnvBody(env) ==
    Body("object", Read(env.id), Read(env.result),
         IF env.error = NoError THEN NoErrorField
         ELSE ErrorField("object", Read(env.error.code), Read(env.error.message),
                         Read(env.error.data)))

\* What the server's promise resolved to, as the answer of send.
ToAnswer(r) ==
    IF r.kind = "list"
    THEN Answer(TRUE, BodyArray, [k \in 1..Len(r.list) |-> EnvBody(r.list[k])])
    ELSE IF r.kind = "envelope" THEN Answer(FALSE, EnvBody(r.env), <<>>)
    ELSE NoAnswer

\* The thrown values that take the two ways through the catch block: null
\* and new Error("boom").
FewThrown ==
    { Thrown("null", Undef, Undef, Undef), Thrown("object", Undef, Str("boom"), Undef) }

\* What the resolvers of a payload throw: anything for a single message, one
\* value per way through the catch block for the elements of a batch.
ThrownIn(p) == IF p.isArray THEN FewThrown ELSE ThrownValues

\* A client whose send is `x => server(x, undefined)`, both built without
\* options: one call of a new client, carried to the server and back.
LoopInit ==
    /\ ServerInit
    /\ options = DefaultOptions
    /\ ClientStart
    /\ clientOptions = DefaultOptions
    /\ ParseIdle

LoopNext ==
    \/ FreshClient /\ \E r \in ClientRequests : rpcClient("a", r)
    \/ FreshClient /\ \E rs \in SeqsUpTo(ClientRequests, MaxBatch) : many("a", rs)
    \/ client["a"].st = "sent" /\ rpcServer(ToPayload(client["a"]))
    \/ \E i \in 1..Len(results), v \in ReturnValues : ResolverReturns(i, v)
    \/ \E i \in 1..Len(results), err \in FewThrown : ResolverThrows(i, err)
    \/ Join
    \/ Reject
    \/ pc = "returned" /\ Deliver("a", ToAnswer(response))
    \/ pc = "rejected" /\ SendFails("a")

LoopSpec == LoopInit /\ [][LoopNext]_vars

\* The server alone, called once with any payload.
Init ==
    /\ ServerInit
    /\ ClientStart
    /\ clientOptions = DefaultOptions
    /\ ParseIdle

\* parse alone: one text, or one text and then one of a few, handed to it.
ParseInit ==
    /\ ServerInit
    /\ options = DefaultOptions
    /\ ClientStart
    /\ clientOptions = DefaultOptions
    /\ queue \in { <<t>> : t \in Texts } \cup { <<t, u>> : t \in Texts, u \in FewTexts }
    /\ input = <<>>
    /\ output = NoEither
    /\ errors = <<>>

ParseNext == CallParse

ParseSpec == ParseInit /\ [][ParseNext]_vars

Next ==
    \/ pc = "idle" /\ \E p \in Payloads : rpcServer(p)
    \/ \E i \in 1..MaxBatch, v \in ReturnValues \cup { Str("[object Object]") } :
           ResolverReturns(i, v)
    \/ \E i \in 1..MaxBatch, err \in ThrownIn(payload) : ResolverThrows(i, err)
    \/ Join
    \/ Reject

Spec == Init /\ [][Next]_vars

\* The server whose resolvers all complete: every invocation returns or
\* throws, and the continuations after the awaits are run.
Completes(i) ==
    \/ \E v \in ReturnValues \cup { Str("[object Object]") } : ResolverReturns(i, v)
    \/ \E err \in ThrownIn(payload) : ResolverThrows(i, err)

LiveSpec ==
    /\ Spec
    /\ \A i \in 1..MaxBatch : WF_vars(Completes(i))
    /\ WF_vars(Join)
    /\ WF_vars(Reject)

----------------------------------------------------------------------------
\* Vocabulary of the properties

Finished == pc \in {"returned", "rejected"}

Single == ~payload.isArray

Elements == 1..Len(payload.items)

\* An id the protocol accepts: absent, null, a string or an integer.
AcceptedId(id) ==
    \/ id.t \in {"undefined", "null", "string"}
    \/ id.t = "number" /\ id.f = 0

\* jsonrpc is "2.0" and method is a string.
VersionAndMethod(m) == m.jsonrpc = Str("2.0") /\ m.method.t = "string"

\* A notification: an object with no id, jsonrpc "2.0" and a string method.
WellFormedNotification(m) == m.t = "object" /\ m.id = Undef /\ VersionAndMethod(m)

\* A request with a valid id that is present, jsonrpc "2.0" and a string method.
CorrelatedRequest(m) ==
    m.t = "object" /\ m.id # Undef /\ AcceptedId(m.id) /\ VersionAndMethod(m)

\* A request that cannot be correlated: no object, an invalid id, or a wrong
\* jsonrpc or method with no id.
Malformed(m) ==
    \/ m.t # "object"
    \/ ~AcceptedId(m.id)
    \/ m.id = Undef /\ ~VersionAndMethod(m)

\* The params have a shape the processor normalizes: an array, an object
\* (null included) or absent.
ShapedParams(m) == m.params.t \in {"array", "undefined", "null", "object"}

Normalized(m) ==
    IF m.params.t = "array" THEN Positional(m.method.s, m.params.arr)
    ELSE ObjectOrEmpty(m.params)

\* What the caller of rpcServer was given for element i of the payload.
Reply(i) ==
    IF Single THEN Promise(response.kind, response.env)
    ELSE IF \E k \in 1..Len(origin) : origin[k] = i
         THEN Promise("envelope", response.list[CHOOSE k \in 1..Len(origin) : origin[k] = i])
         ELSE Promise("undefined", NoEnvelope)

IsFailure(promise, code, id) ==
    /\ promise.st = "envelope"
    /\ promise.env.jsonrpc = "2.0"
    /\ promise.env.error.code = Num(code)
    /\ promise.env.result = Missing
    /\ promise.env.id = id

IsSuccess(promise, id) ==
    /\ promise.st = "envelope"
    /\ promise.env.jsonrpc = "2.0"
    /\ promise.env.result # Missing
    /\ promise.env.error = NoError
    /\ promise.env.id = id

StrictlyIncreasing(q) == \A j, k \in 1..Len(q) : j < k => q[j] < q[k]

----------------------------------------------------------------------------
\* Properties

\* C1: a single payload that is a notification (no id, jsonrpc "2.0", a string
\* method) makes the server return nothing, whatever the method, the params
\* and the resolver do.
C1_NotificationReturnsNothing ==
    (Finished /\ Single /\ WellFormedNotification(payload.items[1]))
        => (pc = "returned" /\ response.kind = "undefined")

\* C2: every envelope carries the id of the request it was made for, or null
\* when that request is malformed; the entries of a batch response are the
\* envelopes of distinct elements, and an empty batch gets id null.
C2_EnvelopeCarriesRequestId ==
    /\ \A i \in 1..Len(results) :
          results[i].st = "envelope" =>
              results[i].env.id =
                  (IF Malformed(payload.items[i]) THEN Null ELSE payload.items[i].id)
    /\ (pc = "returned" /\ payload.isArray /\ Len(payload.items) = 0) =>
          (response.kind = "envelope" /\ response.env.id = Null)
    /\ (pc = "returned" /\ Len(payload.items) > 0) =>
          /\ response.kind \in {"undefined", "envelope", "list"}
          /\ response.kind = "list" <=> payload.isArray
          /\ response.kind = "envelope" => response.env = results[1].env
          /\ response.kind = "list" =>
                /\ Len(origin) = Len(response.list)
                /\ StrictlyIncreasing(origin)
                /\ \A k \in 1..Len(origin) :
                      /\ origin[k] \in Elements
                      /\ response.list[k].id =
                             (IF Malformed(payload.items[origin[k]]) THEN Null
                              ELSE payload.items[origin[k]].id)

C2_Witness ==
    /\ pc = "returned"
    /\ response.kind = "list"
    /\ Len(response.list) = 2
    /\ response.list[1].id = Null
    /\ Malformed(payload.items[1])
    /\ response.list[2].id = Num(2)

\* The precondition of C3: a correlated request to a declared method whose
\* params have a valid shape and pass the request validator.
ValidCall(m) ==
    /\ CorrelatedRequest(m)
    /\ m.method.s \in DeclaredMethods
    /\ ShapedParams(m)
    /\ ~IsLeft(m.method.s, Normalized(m))

\* C3 as stated: a well-formed non-notification request to a declared method
\* with params that decode gets an envelope with its id and `result`, never
\* `error`.
C3_ValidCallGetsResult ==
    \A i \in 1..Len(results) :
        (pc = "returned" /\ ValidCall(payload.items[i]))
            => IsSuccess(Reply(i), payload.items[i].id)

\* C3 amended: such a request whose resolver returns gets an envelope with its
\* id and `result`, never `error`.
C3_ValidCallThatReturnsGetsResult ==
    \A i \in 1..Len(results) :
        /\ (ValidCall(payload.items[i]) /\ fate[i] = "returned")
              => IsSuccess(results[i], payload.items[i].id)
        /\ (pc = "returned" /\ ValidCall(payload.items[i]) /\ fate[i] = "returned")
              => IsSuccess(Reply(i), payload.items[i].id)

C3_Witness ==
    /\ pc = "returned"
    /\ Single
    /\ ValidCall(payload.items[1])
    /\ payload.items[1].id = Null
    /\ fate[1] = "returned"
    /\ response.kind = "envelope"
    /\ response.env.result = Str("Hello World!")

\* C4: the call of the server never rejects.
C4_NeverRejects == pc # "rejected"

\* C5: a correlated request whose method is no declared key of the method
\* table gets a -32601 failure with its id, and no resolver is invoked.
C5_UnknownMethod ==
    (Finished /\ Single /\ CorrelatedRequest(payload.items[1])
              /\ payload.items[1].method.s \notin DeclaredMethods)
        => /\ pc = "returned"
           /\ IsFailure(Reply(1), -32601, payload.items[1].id)
           /\ calls[1].n = 0

\* C6: the envelopes of a batch response are in the order of their requests,
\* in whatever order the resolvers completed.
C6_BatchOrder ==
    (pc = "returned" /\ response.kind = "list") =>
        /\ StrictlyIncreasing(origin)
        /\ \A k \in 1..Len(origin) : response.list[k] = results[origin[k]].env

C6_Witness ==
    /\ pc = "returned"
    /\ response.kind = "list"
    /\ settled = <<2, 1>>
    /\ Len(response.list) = 2
    /\ response.list[1].id = Num(1)
    /\ response.list[2].id = Num(2)

\* C7: a non-empty batch returns a list with exactly one envelope for each
\* element that is no well-formed notification and none for the others; a
\* batch of notifications alone returns the empty list.
C7_BatchDropsNotifications ==
    (pc = "returned" /\ payload.isArray /\ Len(payload.items) > 0) =>
        /\ response.kind = "list"
        /\ Len(response.list) =
               Cardinality({ i \in Elements : ~WellFormedNotification(payload.items[i]) })
        /\ \A k \in 1..Len(response.list) : response.list[k].jsonrpc = "2.0"
        /\ \A i \in Elements :
               Cardinality({ k \in 1..Len(origin) : origin[k] = i }) =
                   (IF WellFormedNotification(payload.items[i]) THEN 0 ELSE 1)

C7_Witness ==
    /\ pc = "returned"
    /\ payload.isArray
    /\ Len(payload.items) = 2
    /\ \A i \in Elements : WellFormedNotification(payload.items[i])
    /\ \E i \in Elements : fate[i] = "threw"
    /\ response.kind = "list"
    /\ response.list = <<>>

\* The payloads of C8: a primitive or null, an empty array, or an object
\* without id whose jsonrpc is not "2.0" or whose method is no string.
InvalidTopLevel ==
    \/ payload.isArray /\ Len(payload.items) = 0
    \/ /\ Single
       /\ \/ payload.items[1].t # "object"
          \/ payload.items[1].id = Undef /\ ~VersionAndMethod(payload.items[1])

\* C8: such a payload gets one failure envelope, -32600 "Invalid request"
\* with id null, and no resolver is invoked.
C8_InvalidTopLevel ==
    (Finished /\ InvalidTopLevel) =>
        /\ pc = "returned"
        /\ response.kind = "envelope"
        /\ IsFailure(Promise("envelope", response.env), -32600, Null)
        /\ response.env.error.message = Str("Invalid request")
        /\ \A i \in 1..Len(calls) : calls[i].n = 0

C8_Witness ==
    /\ pc = "returned"
    /\ Single
    /\ payload.items[1].t = "object"
    /\ payload.items[1].id = Undef
    /\ payload.items[1].jsonrpc = Str("1.0")
    /\ payload.items[1].method = Str("hello")
    /\ response.kind = "envelope"

\* C9: isJsonRpcId accepts exactly an absent id, null, a string and an
\* integer; a request with any other id gets -32600 with id null, whatever its
\* other fields, and no resolver is invoked.
C9_InvalidId ==
    /\ \A id \in IdValues : isJsonRpcId(id) <=> AcceptedId(id)
    /\ \A i \in 1..Len(results) :
          (payload.items[i].t = "object" /\ ~AcceptedId(payload.items[i].id)) =>
              /\ IsFailure(results[i], -32600, Null)
              /\ calls[i].n = 0
              /\ pc = "returned" => IsFailure(Reply(i), -32600, Null)
    /\ \A i \in 1..Len(results) :
          (payload.items[i].t = "object" /\ IsFailure(results[i], -32600, Null)
              /\ payload.items[i].id \notin {Undef, Null})
            => ~AcceptedId(payload.items[i].id)

C9_Witness ==
    /\ pc = "returned"
    /\ Single
    /\ payload.items[1].id = Fractional
    /\ payload.items[1].jsonrpc = Str("2.0")
    /\ payload.items[1].method = Str("hello")
    /\ response.kind = "envelope"
    /\ response.env.id = Null

\* The precondition of C10: a correlated request to a declared method whose
\* normalized params the request validator rejects.
InvalidParams(m) ==
    /\ CorrelatedRequest(m)
    /\ m.method.s \in DeclaredMethods
    /\ ShapedParams(m)
    /\ IsLeft(m.method.s, Normalized(m))

\* C10 as stated: such a request gets a -32602 failure with its id and its
\* resolver is not invoked.
C10_InvalidParams ==
    \A i \in 1..Len(results) :
        InvalidParams(payload.items[i]) =>
            /\ IsFailure(results[i], -32602, payload.items[i].id)
            /\ calls[i].n = 0

\* C10 amended: such a request to a server that decodes requests
\* (options.decode is not false) gets a -32602 failure with its id and its
\* resolver is not invoked.
C10_InvalidParamsWhenDecoding ==
    \A i \in 1..Len(results) :
        (options.decode /\ InvalidParams(payload.items[i])) =>
            /\ IsFailure(results[i], -32602, payload.items[i].id)
            /\ calls[i].n = 0
            /\ pc = "returned" => IsFailure(Reply(i), -32602, payload.items[i].id)

C10_Witness ==
    /\ pc = "returned"
    /\ Single
    /\ options.decode
    /\ InvalidParams(payload.items[1])
    /\ payload.items[1].params.t = "array"
    /\ response.kind = "envelope"
    /\ response.env.id = Str("a")

\* The failure envelope of a thrown value: its numeric code or -32603,
\* its message or "Internal error", its data.
ThrownEnvelope(err, id) ==
    Envelope(id, Missing,
             Error(IF err.code.t = "number" THEN err.code ELSE Num(-32603),
                   IF err.message.t = "string" /\ err.message.s # "" THEN err.message
                   ELSE Str("Internal error"),
                   err.data))

\* C11: when the resolver of a non-notification request throws, the server
\* returns a failure envelope with the request's id, the thrown value's numeric
\* code or -32603, its message or "Internal error", and its data.
C11_ThrownBecomesFailure ==
    \A i \in 1..Len(results) :
        (fate[i] = "threw" /\ payload.items[i].id # Undef) =>
            /\ results[i] = Promise("envelope",
                                    ThrownEnvelope(effect[i].err, payload.items[i].id))
            /\ pc = "returned" => Reply(i) = results[i]

\* The validation steps in their order, each as the failure it reports: 0 when
\* every step passes.
FirstFailingStep(m, opts) ==
    IF m.t # "object" THEN 1
    ELSE IF ~AcceptedId(m.id) THEN 2
    ELSE IF ~VersionAndMethod(m) THEN 3
    ELSE IF m.method.s \notin DeclaredMethods THEN 4
    ELSE IF ~ShapedParams(m) THEN 5
    ELSE IF opts.decode /\ IsLeft(m.method.s, Normalized(m)) THEN 6
    ELSE 0

\* The code each step reports.
StepCode(step) ==
    IF step = 4 THEN -32601 ELSE IF step = 6 THEN -32602 ELSE -32600

\* The id each step reports: null before the id is known to be valid, the
\* id or null at the third step, the id afterwards.
StepId(step, m) ==
    IF step \in {1, 2} THEN Null
    ELSE IF step = 3 THEN (IF m.id = Undef THEN Null ELSE m.id)
    ELSE m.id

\* C23: the validation steps short-circuit in a fixed order (no object,
\* invalid id, wrong jsonrpc or method, unknown method, params of a wrong
\* shape, params that do not decode) and the error reported is that of the
\* first failing step, with no resolver invoked.
C23_FirstFailingStepReported ==
    \A i \in 1..Len(results) :
        LET m == payload.items[i]
            step == FirstFailingStep(m, options)
        IN (step # 0 /\ StepId(step, m) # Undef) =>
               /\ IsFailure(results[i], StepCode(step), StepId(step, m))
               /\ calls[i].n = 0

\* C24: the resolver of a request, notification or not, is invoked exactly
\* once when the request passes every validation step up to and including the
\* decoding of its params, and never when a step fails.
C24_InvokedOnceWhenValid ==
    \A i \in 1..Len(calls) :
        /\ calls[i].n = IF FirstFailingStep(payload.items[i], options) = 0 THEN 1 ELSE 0
        /\ fate[i] # "none" => calls[i].n = 1

\* What element i gets on its own account: the failure of its validation, or
\* what its resolver's outcome becomes.
OwnPromise(i) ==
    IF calls[i].n = 0 THEN processRequest(payload.items[i], options).promise
    ELSE IF fate[i] = "returned"
    THEN Returned(payload.items[i].method.s, effect[i].value, calls[i].id,
                  calls[i].isNotification, options)
    ELSE IF fate[i] = "threw" THEN Caught(effect[i].err, calls[i].id)
    ELSE Promise("pending", NoEnvelope)

\* C25: in a batch the envelope of an element depends on that element and on
\* its own resolver's outcome alone: an element that is malformed, fails
\* validation or whose resolver throws neither changes nor suppresses the
\* envelopes of the others.
C25_BatchElementsIndependent ==
    (payload.isArray /\ Len(payload.items) > 0) =>
        /\ \A i \in 1..Len(results) : results[i] = OwnPromise(i)
        /\ Finished =>
               \A i \in 1..Len(results) :
                   results[i].st = "envelope" => Reply(i) = results[i]

\* A batch is being processed.
BatchRunning == pc = "running" /\ payload.isArray

\* Some resolver of the batch has not completed.
SomePending == \E i \in 1..Len(results) : results[i].st = "pending"

\* C26: a batch call returns once every resolver it started has returned or
\* thrown, and while a resolver has not completed the call has not returned
\* and has delivered no envelope.
C26_BatchReturnsWhenResolversComplete ==
    /\ BatchRunning ~> pc = "returned"
    /\ [](payload.isArray /\ SomePending =>
              pc # "returned" /\ response.kind \in {"none", "rejected"})

ByPosition(method, arr) ==
    IF method = "echo" /\ Len(arr) >= 1 THEN [NoProps EXCEPT !["arg"] = arr[1]]
    ELSE NoProps

PrimitiveParams(m) ==
    /\ CorrelatedRequest(m)
    /\ m.method.s \in DeclaredMethods
    /\ m.params.t \in {"string", "number", "boolean"}

----------------------------------------------------------------------------
\* Properties of parse

\* A well-formed text and the value it denotes.
Doc(text, value) == [text |-> text, value |-> value]

\* The numerals: k digits 1.
Numerals ==
    { Doc([i \in 1..k |-> "1"], Json("number", Ones(k), <<>>)) : k \in 1..MaxText }

RECURSIVE Joined(_)
\* The texts of the documents, separated by commas.
Joined(q) ==
    IF q = <<>> THEN <<>>
    ELSE IF Len(q) = 1 THEN q[1].text
    ELSE q[1].text \o <<",">> \o Joined(Tail(q))

\* The array whose elements are the documents of q.
ArrayOf(q) ==
    Doc(<<"[">> \o Joined(q) \o <<"]">>,
        Json("array", 0, [i \in 1..Len(q) |-> q[i].value]))

RECURSIVE Documents(_)
\* The well-formed texts of at most MaxText characters, built from the
\* grammar: a value is a numeral or `[` values separated by commas `]`.
Documents(depth) ==
    IF depth = 0 THEN Numerals
    ELSE LET inner == Documents(depth - 1)
             short == { d \in inner : Len(d.text) <= MaxText - 2 }
         IN inner \cup { d \in { ArrayOf(q) : q \in SeqsUpTo(short, MaxText \div 2) } :
                            Len(d.text) <= MaxText }

WellFormed == Documents(MaxText \div 2)

\* C21: parse never throws: for a malformed text it returns a failure that is
\* exactly { code: -32700, message: "Parse error" }, the same on every call,
\* and for a well-formed text a success carrying the parsed value.
C21_ParseTotal ==
    output.tag # "none" =>
        /\ output.tag \in {"Left", "Right"}
        /\ IF \E d \in WellFormed : d.text = input
           THEN output = Right((CHOOSE d \in WellFormed : d.text = input).value)
           ELSE output = Left(Error(Num(-32700), Str("Parse error"), Missing))
        /\ \A k \in 1..Len(errors) : errors[k] = errors[1]

\* Two malformed texts in a row, each answered with the parse error.
C21_Witness ==
    /\ queue = <<>>
    /\ input = <<"]", "1">>
    /\ output.tag = "Left"
    /\ Len(errors) = 2
    /\ errors[1] = errors[2]

\* C22 as stated: the error parse returns for a syntax error carries the
\* message of the underlying parser failure.
C22_CarriesParserMessage ==
    output.tag = "Left" => output.left.message = Str(JSONParse(input).message)

\* C22: the error parse returns for a syntax error carries the fixed message
\* "Parse error", whatever the message of the underlying parser failure.
C22_FixedMessage ==
    output.tag = "Left" =>
        /\ JSONParse(input).threw
        /\ output.left.message = Str("Parse error")
        /\ output.left.message # Str(JSONParse(input).message)

\* A text that ends too early: the parser's message is not the one returned.
C22_Witness ==
    /\ input = <<"[", "1", ",">>
    /\ JSONParse(input).message = "Unexpected end of JSON input"
    /\ output = Left(PARSE_ERROR)

----------------------------------------------------------------------------
\* Properties of the client

\* The number of requests with an id among the first k prepared.
WithIdAmong(k) == Cardinality({ j \in 1..k : ~prepared[j].async })

\* The ids of the requests prepared so far follow the counter.
IdsFollowCounter ==
    /\ \A k \in 1..Len(prepared) :
           prepared[k].id = IF prepared[k].async THEN Undef ELSE Num(WithIdAmong(k - 1))
    /\ counter = WithIdAmong(Len(prepared))
    /\ \A j, k \in 1..Len(prepared) :
           (j # k /\ ~prepared[j].async /\ ~prepared[k].async) =>
               prepared[j].id # prepared[k].id

\* C12: on one client, whatever the interleaving of single and batch calls and
\* of failing transports, the k-th request with an id carries id k counting
\* from 0, async requests carry no id and consume no counter value, and the
\* counter never decreases, so no two requests share an id.
C12_CounterIds ==
    /\ []IdsFollowCounter
    /\ [][counter' >= counter /\ SubSeq(prepared', 1, Len(prepared)) = prepared]_vars

\* Both callers have calls behind them or in flight, one transport failed, a
\* batch is in flight, and an async request sits among those with ids.
C12_Witness ==
    /\ client["a"].outcome.kind = "failed"
    /\ client["b"].st = "sent"
    /\ client["b"].isMany
    /\ Len(prepared) = 3
    /\ counter = 2
    /\ prepared[2].async

\* The batch call of caller "a" that has an array for a reply.
BatchAnswered ==
    /\ client["a"].st = "done"
    /\ client["a"].isMany
    /\ client["a"].outcome.kind # "failed"
    /\ client["a"].answer.isArray

\* The reorderings of a list of n entries.
Reorderings(n) ==
    { p \in [1..n -> 1..n] : \A j, k \in 1..n : p[j] = p[k] => j = k }

Permuted(list, p) == [k \in 1..Len(list) |-> list[p[k]]]

\* What the batch call of "a" would have got from the same reply reordered.
Shuffled(p) ==
    SettleMany(client["a"].items,
               Answer(TRUE, BodyArray, Permuted(client["a"].answer.list, p)),
               clientOptions)

\* The entries of the reply that carry this id.
EntriesWithId(list, id) == { k \in 1..Len(list) : EntryId(list[k]) = id }

\* The result list of "a" has a slot per request, each computed from the
\* entry that carries the request's id.
SlotsById ==
    client["a"].outcome.kind = "list" =>
        /\ Len(client["a"].outcome.list) = Len(client["a"].items)
        /\ \A i \in 1..Len(client["a"].items) :
               \A k \in EntriesWithId(client["a"].answer.list, client["a"].items[i].id) :
                   client["a"].outcome.list[i]
                       = process(client["a"].items[i], client["a"].answer.list[k],
                                 clientOptions)

\* The entries of the reply carry pairwise distinct ids.
DistinctIds(list) ==
    \A j, k \in 1..Len(list) : EntryId(list[j]) = EntryId(list[k]) => j = k

\* C13 as stated: in a batch call, for every permutation of the reply array,
\* slot i is computed from the entry whose id is the id of request i, and the
\* result list is the same for every ordering of the reply.
C13_AnyReplyOrder ==
    BatchAnswered =>
        /\ SlotsById
        /\ \A p \in Reorderings(Len(client["a"].answer.list)) :
               Shuffled(p) = client["a"].outcome

\* C13: in a batch call whose reply entries carry pairwise distinct ids, for
\* every permutation of the reply array, slot i is computed from the entry
\* whose id is the id of request i, so the result list is the same for every
\* ordering and has one slot per request in submission order.
C13_AnyOrderOfDistinctIds ==
    (BatchAnswered /\ DistinctIds(client["a"].answer.list)) =>
        /\ SlotsById
        /\ \A p \in Reorderings(Len(client["a"].answer.list)) :
               Shuffled(p) = client["a"].outcome

\* Two requests answered in reverse order, each slot holding its own result.
C13_Witness ==
    /\ BatchAnswered
    /\ Len(client["a"].items) = 2
    /\ client["a"].items[1].id = Num(0)
    /\ client["a"].items[2].id = Num(1)
    /\ client["a"].answer.list = << Body("object", Num(1), Str("r1"), NoErrorField),
                                    Body("object", Num(0), Str("r0"), NoErrorField) >>
    /\ client["a"].outcome.list = << Value(Str("r0")), Value(Str("r1")) >>

\* The list without its k-th entry.
Without(list, k) == SubSeq(list, 1, k - 1) \o SubSeq(list, k + 1, Len(list))

\* C14: in a batch call whose reply is an array, whatever its entries are
\* (errors, undecodable results, missing entries, null, primitives), the call
\* does not throw: it returns one slot per request, each a value or a client
\* error, and an entry for one request leaves the slots of the others as they
\* would be without it.
C14_ArrayReplyNeverThrows ==
    BatchAnswered =>
        /\ client["a"].outcome.kind = "list"
        /\ Len(client["a"].outcome.list) = Len(client["a"].items)
        /\ \A i \in 1..Len(client["a"].items) :
               /\ client["a"].outcome.list[i].kind \in {"value", "error"}
               /\ \A k \in 1..Len(client["a"].answer.list) :
                      EntryId(client["a"].answer.list[k]) # client["a"].items[i].id =>
                          SettleMany(client["a"].items,
                                     Answer(TRUE, BodyArray,
                                            Without(client["a"].answer.list, k)),
                                     clientOptions).list[i]
                              = client["a"].outcome.list[i]

\* C15: in a batch call every item sent with async true resolves to undefined
\* whatever the reply array holds, an entry with no id included, and the other
\* slots keep their submission positions.
C15_AsyncSlotsUndefined ==
    (BatchAnswered /\ client["a"].outcome.kind = "list") =>
        /\ Len(client["a"].outcome.list) = Len(client["a"].items)
        /\ \A i \in 1..Len(client["a"].items) :
               IF client["a"].items[i].async
               THEN client["a"].outcome.list[i] = Value(Undef)
               ELSE client["a"].outcome.list[i]
                        = process(client["a"].items[i],
                                  Lookup(client["a"].answer.list, client["a"].items[i].id),
                                  clientOptions)

\* The batch call of caller "a" whose reply is no array.
BatchAnsweredNoArray ==
    /\ client["a"].st = "done"
    /\ client["a"].isMany
    /\ client["a"].outcome.kind # "failed"
    /\ ~client["a"].answer.isArray

\* C16: a batch call whose reply is not an array (an object, a primitive,
\* null, undefined) fails as a whole with "Invalid response" of code -1 and
\* returns no slots, also when every item is a notification.
C16_NonArrayReplyFails ==
    BatchAnsweredNoArray =>
        /\ client["a"].outcome.kind = "throw"
        /\ client["a"].outcome.error = RpcError(Str("Invalid response"), Num(-1), Undef)
        /\ client["a"].outcome.list = <<>>

\* A batch of two notifications answered with undefined.
C16_Witness ==
    /\ BatchAnsweredNoArray
    /\ Len(client["a"].items) = 2
    /\ \A i \in 1..2 : client["a"].items[i].async
    /\ client["a"].answer.body = BodyUndefined
    /\ client["a"].outcome.kind = "throw"

\* The single call of caller "a" that has its reply.
SingleAnswered ==
    /\ client["a"].st = "done"
    /\ ~client["a"].isMany
    /\ client["a"].outcome.kind # "failed"

\* The body process was given: the reply, an array included.
GivenBody == IF client["a"].answer.isArray THEN BodyArray ELSE client["a"].answer.body

\* The reply carries an `error` field.
HasError == GivenBody.t = "object" /\ GivenBody.error.t # "undefined"

\* The reply carries a `result` field.
HasResult == GivenBody.t = "object" /\ GivenBody.result.t # "undefined"

\* The replies that are no JSON-RPC response for this call.
NoResponseAtAll ==
    \/ GivenBody.t = "undefined" /\ ~client["a"].items[1].async
    \/ GivenBody.t = "null"
    \/ GivenBody.t \in {"number", "string", "boolean"}
    \/ GivenBody.t = "array"
    \/ GivenBody.t = "object" /\ ~HasResult /\ ~HasError

ThrewInvalidResponse ==
    /\ client["a"].outcome.kind = "throw"
    /\ client["a"].outcome.error = RpcError(Str("Invalid response"), Num(-1), Undef)

\* C17: with no error field in the reply, a single call fails with "Invalid
\* response" (code -1) exactly when the body is undefined and the call no
\* notification, or the body is null, a primitive or an array, or an object
\* with neither result nor error; an undefined body for a notification
\* resolves to undefined.
C17_InvalidResponseCases ==
    (SingleAnswered /\ ~HasError) =>
        /\ ThrewInvalidResponse <=> NoResponseAtAll
        /\ (GivenBody.t = "undefined" /\ client["a"].items[1].async) =>
               client["a"].outcome = Outcome("value", Undef, NoRpcError, <<>>)

\* A call with an id answered by an object that has an id and nothing else.
C17_Witness ==
    /\ SingleAnswered
    /\ ~client["a"].items[1].async
    /\ GivenBody = Body("object", Num(0), Undef, NoErrorField)
    /\ ThrewInvalidResponse

\* The error the single call of "a" threw.
ThrownError == client["a"].outcome.error

\* C18 as stated: a reply with an `error` field makes the single call throw a
\* client error with the server's message, the server's code, or 0 when the
\* code is absent or no number, and the server's data, whether or not the
\* reply also carries a result.
C18_ErrorBecomesClientError ==
    (SingleAnswered /\ HasError) =>
        /\ client["a"].outcome.kind = "throw"
        /\ ThrownError.code = IF ErrorCode(GivenBody.error).t = "number"
                              THEN ErrorCode(GivenBody.error) ELSE Num(0)
        /\ (ErrorMessage(GivenBody.error).t = "string"
                /\ ErrorMessage(GivenBody.error) # Str("")) =>
               ThrownError.message = ErrorMessage(GivenBody.error)
        /\ ThrownError.data = ErrorData(GivenBody.error)

\* The number a code converts to: itself, 1 for true, the number a string of
\* digits spells, 0 for anything else.
Converted(code) ==
    IF code.t = "number" THEN code
    ELSE IF code = True THEN Num(1)
    ELSE IF code = Str("5") THEN Num(5)
    ELSE Num(0)

\* C18: a reply with an `error` field makes the single call throw a client
\* error whose code is the server's code converted to a number (0 when that
\* gives no number), whose message is the server's message as a string
\* ("Error" when absent or empty) and whose data is the server's data, whether
\* or not the reply also carries a result.
C18_ErrorBecomesConvertedClientError ==
    (SingleAnswered /\ HasError) =>
        /\ client["a"].outcome.kind = "throw"
        /\ ThrownError.code = Converted(ErrorCode(GivenBody.error))
        /\ ThrownError.code.t = "number" /\ ThrownError.code.s = ""
        /\ ThrownError.message.t = "string"
        /\ ThrownError.message =
               IF ErrorMessage(GivenBody.error).t = "string"
                   /\ ErrorMessage(GivenBody.error) # Str("")
               THEN ErrorMessage(GivenBody.error)
               ELSE IF ErrorMessage(GivenBody.error) = Num(5) THEN Str("5")
               ELSE Str("Error")
        /\ ThrownError.data = ErrorData(GivenBody.error)

\* A reply with both a result and the server's error object.
C18_Witness ==
    /\ SingleAnswered
    /\ GivenBody.result = Str("ok")
    /\ GivenBody.error = ErrorField("object", Num(-32601), Str("Method not found"), Str("d"))
    /\ client["a"].outcome =
           Outcome("throw", Missing,
                   RpcError(Str("Method not found"), Num(-32601), Str("d")), <<>>)

\* C19: a reply with a result and no error is decoded with the response
\* validator and the decoded value returned, falsy results included; a result
\* the validator rejects gives a client error of code -2, never "Invalid
\* response".
C19_ResultIsDecoded ==
    (SingleAnswered /\ HasResult /\ ~HasError) =>
        /\ ~ThrewInvalidResponse
        /\ IF clientOptions.decode /\ GivenBody.result.t # "string"
           THEN /\ client["a"].outcome.kind = "throw"
                /\ ThrownError.code = Num(-2)
           ELSE client["a"].outcome = Outcome("value", GivenBody.result, NoRpcError, <<>>)

\* The empty string, decoded and returned.
C19_Witness ==
    /\ SingleAnswered
    /\ clientOptions.decode
    /\ GivenBody.result = Str("")
    /\ ~HasError
    /\ client["a"].outcome = Outcome("value", Str(""), NoRpcError, <<>>)

\* The ids a reply may carry in place of its own.
OtherIds == { Undef, Null, Num(0), Num(1), Str("a") }

\* What the single call of "a" would have got from the same reply under
\* another id.
WithId(id) ==
    Settle(client["a"].items[1],
           Answer(FALSE, [GivenBody EXCEPT !.id = id], <<>>),
           clientOptions)

\* C30: the outcome of a single call depends on the `result` and `error` of
\* the reply and never on its id: replies that differ in id alone, the id of
\* the request or any other, give the same outcome.
C30_SingleCallIgnoresId ==
    (SingleAnswered /\ GivenBody.t = "object") =>
        \A id \in OtherIds : WithId(id) = client["a"].outcome

\* A call sent with id 0 and answered under id 1 returns the result.
C30_Witness ==
    /\ SingleAnswered
    /\ client["a"].items[1].id = Num(0)
    /\ GivenBody = Body("object", Num(1), Str("ok"), NoErrorField)
    /\ client["a"].outcome = Outcome("value", Str("ok"), NoRpcError, <<>>)

----------------------------------------------------------------------------
\* Properties of a client wired to a server

\* The slot the call of "a" got for its i-th request.
Slot(i) ==
    IF client["a"].isMany
    THEN client["a"].outcome.list[i]
    ELSE Processed(IF client["a"].outcome.kind = "value" THEN "value" ELSE "error",
                   client["a"].outcome.value, client["a"].outcome.error)

\* The resolver of request i returned a value of the response type.
ResolverReturnedString(i) ==
    /\ i \in 1..Len(fate)
    /\ fate[i] = "returned"
    /\ effect[i].value.t = "string"

\* C20: over a transport that hands the envelopes directly to a server on the
\* same method table, a call with an id and valid params returns exactly the
\* value its resolver returned, a notification call returns undefined, and a
\* batch call returns these values slot by slot in submission order.
C20_LoopbackRoundTrip ==
    (client["a"].st = "done" /\ client["a"].items # <<>>) =>
        /\ client["a"].isMany =>
               /\ client["a"].outcome.kind = "list"
               /\ Len(client["a"].outcome.list) = Len(client["a"].items)
        /\ \A i \in 1..Len(client["a"].items) :
               IF client["a"].items[i].async
               THEN Slot(i) = Value(Undef)
               ELSE ResolverReturnedString(i) => Slot(i) = Value(effect[i].value)

====
